---------------------------- MODULE Spec2Model ----------------------------
(***************************************************************************)
(* Label resolution and configuration derivation of the ECS provider       *)
(* (provider/ecs/config.go).                                               *)
(*                                                                         *)
(* Go values are represented as follows.                                   *)
(*   string        a sequence of one-character strings, <<"t","r","u">>    *)
(*   *T (pointer)  <<>> for nil, <<v>> for a pointer to v                   *)
(*   map[K]V       a function whose DOMAIN is the set of keys present      *)
(*   []T           a sequence                                              *)
(*   a call        a record [panic |-> BOOLEAN, val |-> result]: an index  *)
(*                 out of range or a nil dereference is a run-time panic   *)
(* Label names are the identifiers of the label package's constants.       *)
(***************************************************************************)
EXTENDS Integers, Sequences, FiniteSets, TLC

VARIABLES
    instances,   \* the []ecsInstance the accessors are called on
    services,    \* the map[string][]ecsInstance given to buildConfiguration
    domain,      \* Provider.Domain
    call,        \* the last call made: its function and its arguments
    ret,         \* what that call returned: [panic, val]
    log          \* the warnings that call wrote with log.Warnf

vars == <<instances, services, domain, call, ret, log>>

---------------------------------------------------------------------------
(* Bounds of the model. *)

\* longest generated label value
MaxStrLen == 3
\* most instances in a group
MaxInstances == 2
\* most labels set in a group (all instances together)
MaxLabels == 2
\* longest list given to filterFrontends
MaxFilterLen == 3
\* longest generated service name
MaxNameLen == 2
\* most services in a batch
MaxServices == 2
\* width of int and int64 in bits (64 in the build, scaled down to fit
\* TLC's 32-bit integers)
IntSize == 16

---------------------------------------------------------------------------
(* Pointers and strings. *)

NilPtr == <<>>

Ptr(v) == <<v>>

IsNil(p) == Len(p) = 0

Deref(p) == p[1]

EmptyMap == [k \in {} |-> NilPtr]

RECURSIVE SeqsUpTo(_, _)
\* all sequences over S of length at most n
SeqsUpTo(S, n) ==
    IF n = 0 THEN {<<>>}
    ELSE LET shorter == SeqsUpTo(S, n - 1)
         IN  shorter \cup {Append(s, c) : s \in shorter, c \in S}

RECURSIVE Pow2(_)
Pow2(n) == IF n = 0 THEN 1 ELSE 2 * Pow2(n - 1)

Digits == <<"0", "1", "2", "3", "4", "5", "6", "7", "8", "9">>

IsDigit(c) == \E d \in 1..10 : Digits[d] = c

DigitVal(c) == (CHOOSE d \in 1..10 : Digits[d] = c) - 1

MaxInt64 == Pow2(IntSize - 1) - 1

---------------------------------------------------------------------------
(* strconv: ParseBool, ParseUint, ParseInt, Atoi, FormatInt. *)

TrueTokens ==
    { <<"1">>, <<"t">>, <<"T">>, <<"T","R","U","E">>, <<"t","r","u","e">>,
      <<"T","r","u","e">> }

FalseTokens ==
    { <<"0">>, <<"f">>, <<"F">>, <<"F","A","L","S","E">>,
      <<"f","a","l","s","e">>, <<"F","a","l","s","e">> }

\* strconv.ParseBool: a fixed set of tokens, anything else is a syntax error
ParseBool(str) ==
    IF str \in TrueTokens THEN [v |-> TRUE, err |-> ""]
    ELSE IF str \in FalseTokens THEN [v |-> FALSE, err |-> ""]
    ELSE [v |-> FALSE, err |-> "syntax"]

RECURSIVE ParseUintFrom(_, _, _, _)
\* the digit loop of strconv.ParseUint in base 10: n is the value of s[1..i-1]
ParseUintFrom(s, i, n, maxVal) ==
    IF i > Len(s) THEN [v |-> n, err |-> ""]
    ELSE IF ~IsDigit(s[i]) THEN [v |-> 0, err |-> "syntax"]
    ELSE LET n1 == n * 10 + DigitVal(s[i])
         IN  IF n1 > maxVal THEN [v |-> maxVal, err |-> "range"]
             ELSE ParseUintFrom(s, i + 1, n1, maxVal)

\* strconv.ParseUint(s, 10, bitSize)
ParseUint(s, bitSize) ==
    IF Len(s) = 0 THEN [v |-> 0, err |-> "syntax"]
    ELSE ParseUintFrom(s, 1, 0, Pow2(bitSize) - 1)

\* strconv.ParseInt(s, 10, bitSize)
ParseInt(s, bitSize) ==
    IF Len(s) = 0 THEN [v |-> 0, err |-> "syntax"]
    ELSE LET neg    == s[1] = "-"
             body   == IF s[1] = "+" \/ s[1] = "-" THEN Tail(s) ELSE s
             un     == ParseUint(body, bitSize)
             cutoff == Pow2(bitSize - 1)
         IN  IF un.err # "" /\ un.err # "range" THEN [v |-> 0, err |-> un.err]
             ELSE IF ~neg /\ un.v >= cutoff
                  THEN [v |-> cutoff - 1, err |-> "range"]
             ELSE IF neg /\ un.v > cutoff
                  THEN [v |-> 0 - cutoff, err |-> "range"]
             ELSE [v |-> IF neg THEN 0 - un.v ELSE un.v, err |-> ""]

\* strconv.Atoi(s): ParseInt(s, 10, 0), int being IntSize bits wide
Atoi(s) == ParseInt(s, IntSize)

RECURSIVE FormatUint(_)
\* the decimal digits of n >= 0, most significant first
FormatUint(n) ==
    IF n < 10 THEN <<Digits[n + 1]>>
    ELSE Append(FormatUint(n \div 10), Digits[(n % 10) + 1])

\* strconv.FormatInt(n, 10)
FormatInt(n) == IF n < 0 THEN <<"-">> \o FormatUint(0 - n) ELSE FormatUint(n)

---------------------------------------------------------------------------
(* strings: ToLower, Replace, Split, TrimSpace. *)

UpperCase == <<"A", "B", "C", "D", "E", "F", "G", "H", "I", "J", "K", "L", "M",
               "N", "O", "P", "Q", "R", "S", "T", "U", "V", "W", "X", "Y", "Z">>

LowerCase == <<"a", "b", "c", "d", "e", "f", "g", "h", "i", "j", "k", "l", "m",
               "n", "o", "p", "q", "r", "s", "t", "u", "v", "w", "x", "y", "z">>

\* strings.ToLower on ASCII text
ToLower(s) ==
    [i \in 1..Len(s) |->
        IF \E u \in 1..26 : UpperCase[u] = s[i]
        THEN LowerCase[CHOOSE u \in 1..26 : UpperCase[u] = s[i]]
        ELSE s[i]]

\* strings.Replace(s, old, new, -1) for one-character old and new
Replace(s, old, new) == [i \in 1..Len(s) |-> IF s[i] = old THEN new ELSE s[i]]

RECURSIVE SplitFrom(_, _, _, _)
\* strings.Split(s, sep) for a one-character sep: cur is the piece being read
SplitFrom(s, sep, i, cur) ==
    IF i > Len(s) THEN <<cur>>
    ELSE IF s[i] = sep THEN <<cur>> \o SplitFrom(s, sep, i + 1, <<>>)
    ELSE SplitFrom(s, sep, i + 1, Append(cur, s[i]))

Split(s, sep) == SplitFrom(s, sep, 1, <<>>)

RECURSIVE TrimLeft(_)
TrimLeft(s) == IF Len(s) > 0 /\ s[1] = " " THEN TrimLeft(Tail(s)) ELSE s

RECURSIVE TrimRight(_)
TrimRight(s) ==
    IF Len(s) > 0 /\ s[Len(s)] = " "
    THEN TrimRight(SubSeq(s, 1, Len(s) - 1)) ELSE s

\* strings.TrimSpace
TrimSpace(s) == TrimRight(TrimLeft(s))

\* label.SplitAndTrimString: split on the separator, trim each element
SplitAndTrimString(base, sep) ==
    LET parts == Split(base, sep)
    IN  [p \in 1..Len(parts) |-> TrimSpace(parts[p])]

---------------------------------------------------------------------------
(* The constants of the label package the code names. *)

TraefikFrontendRule == "TraefikFrontendRule"
TraefikPort == "TraefikPort"
TraefikEnable == "TraefikEnable"
TraefikBackendLoadBalancerMethod == "TraefikBackendLoadBalancerMethod"
TraefikBackendLoadBalancerSticky == "TraefikBackendLoadBalancerSticky"
TraefikBackendLoadBalancerStickiness == "TraefikBackendLoadBalancerStickiness"
TraefikBackendLoadBalancerStickinessCookieName == "TraefikBackendLoadBalancerStickinessCookieName"
TraefikBackendMaxConnAmount == "TraefikBackendMaxConnAmount"
TraefikBackendMaxConnExtractorFunc == "TraefikBackendMaxConnExtractorFunc"
TraefikBackendHealthCheckPath == "TraefikBackendHealthCheckPath"
TraefikBackendCircuitBreakerExpression == "TraefikBackendCircuitBreakerExpression"

\* the text "false", getSticky's default
StrFalse == <<"f", "a", "l", "s", "e">>

---------------------------------------------------------------------------
(* Typed label accessors. *)

\* getStringValue without the test for an empty value
getStringValueKeepsEmpty(i, labelName, defaultValue) ==
    IF labelName \in DOMAIN i.containerDefinition.DockerLabels
    THEN LET v == i.containerDefinition.DockerLabels[labelName]
         IN  IF IsNil(v) THEN defaultValue ELSE Deref(v)
    ELSE defaultValue

\* config.go:162
getStringValue(i, labelName, defaultValue) ==
    IF labelName \in DOMAIN i.containerDefinition.DockerLabels
    THEN LET v == i.containerDefinition.DockerLabels[labelName]
         IN  IF IsNil(v) THEN defaultValue
             ELSE IF Len(Deref(v)) = 0 THEN defaultValue
             ELSE Deref(v)
    ELSE defaultValue

\* getBoolValue without the test of ParseBool's error
getBoolValueIgnoresErr(i, labelName, defaultValue) ==
    IF labelName \in DOMAIN i.containerDefinition.DockerLabels
    THEN LET rawValue == i.containerDefinition.DockerLabels[labelName]
         IN  IF ~IsNil(rawValue) THEN ParseBool(Deref(rawValue)).v
             ELSE defaultValue
    ELSE defaultValue

\* config.go:175
getBoolValue(i, labelName, defaultValue) ==
    IF labelName \in DOMAIN i.containerDefinition.DockerLabels
    THEN LET rawValue == i.containerDefinition.DockerLabels[labelName]
         IN  IF ~IsNil(rawValue) /\ ParseBool(Deref(rawValue)).err = ""
             THEN ParseBool(Deref(rawValue)).v
             ELSE defaultValue
    ELSE defaultValue

\* config.go:188
getIntValue(i, labelName, defaultValue) ==
    IF labelName \in DOMAIN i.containerDefinition.DockerLabels
    THEN LET rawValue == i.containerDefinition.DockerLabels[labelName]
         IN  IF ~IsNil(rawValue) /\ Atoi(Deref(rawValue)).err = ""
             THEN Atoi(Deref(rawValue)).v
             ELSE defaultValue
    ELSE defaultValue

\* config.go:201
getInt64Value(i, labelName, defaultValue) ==
    IF labelName \in DOMAIN i.containerDefinition.DockerLabels
    THEN LET rawValue == i.containerDefinition.DockerLabels[labelName]
         IN  IF ~IsNil(rawValue) /\ ParseInt(Deref(rawValue), IntSize).err = ""
             THEN ParseInt(Deref(rawValue), IntSize).v
             ELSE defaultValue
    ELSE defaultValue

\* a []string: nil, or its elements
NilSlice == [nil |-> TRUE, elems |-> <<>>]

\* config.go:214
getSliceString(i, labelName) ==
    IF labelName \in DOMAIN i.containerDefinition.DockerLabels
    THEN LET value == i.containerDefinition.DockerLabels[labelName]
         IN  IF IsNil(value) THEN NilSlice
             ELSE IF Len(Deref(value)) = 0 THEN NilSlice
             ELSE [nil |-> FALSE, elems |-> SplitAndTrimString(Deref(value), ",")]
    ELSE NilSlice

\* config.go:242
isEnabled(i, exposedByDefault) == getBoolValue(i, TraefikEnable, exposedByDefault)

---------------------------------------------------------------------------
(* Calls that may panic. *)

Ok(v) == [panic |-> FALSE, val |-> v]

\* a run-time panic: index out of range, nil pointer dereference
Panic == [panic |-> TRUE, val |-> <<>>]

---------------------------------------------------------------------------
(* Group-level accessors and presence predicates. *)

\* hasFirst looking at every instance instead of the first
hasFirstAnyInstance(insts, labelName) ==
    \E n \in 1..Len(insts) :
        /\ labelName \in DOMAIN insts[n].containerDefinition.DockerLabels
        /\ ~IsNil(insts[n].containerDefinition.DockerLabels[labelName])
        /\ Len(Deref(insts[n].containerDefinition.DockerLabels[labelName])) # 0

\* config.go:227
hasFirst(insts, labelName) ==
    IF Len(insts) > 0
    THEN /\ labelName \in DOMAIN insts[1].containerDefinition.DockerLabels
         /\ ~IsNil(insts[1].containerDefinition.DockerLabels[labelName])
         /\ Len(Deref(insts[1].containerDefinition.DockerLabels[labelName])) # 0
    ELSE FALSE

\* config.go:235
getFirstStringValue(insts, labelName, defaultValue) ==
    IF Len(insts) = 0 THEN defaultValue
    ELSE getStringValue(insts[1], labelName, defaultValue)

\* config.go:129: the closure, applied
getFuncFirstStringValue(labelName, defaultValue, insts) ==
    Ok(getFirstStringValue(insts, labelName, defaultValue))

\* config.go:135: the closure, applied; len(instances) < 0 never holds, and
\* instances[0] of an empty slice panics
getFuncFirstIntValue(labelName, defaultValue, insts) ==
    IF Len(insts) < 0 THEN Ok(defaultValue)
    ELSE IF Len(insts) = 0 THEN Panic
    ELSE Ok(getIntValue(insts[1], labelName, defaultValue))

\* config.go:144
getFuncFirstInt64Value(labelName, defaultValue, insts) ==
    IF Len(insts) < 0 THEN Ok(defaultValue)
    ELSE IF Len(insts) = 0 THEN Panic
    ELSE Ok(getInt64Value(insts[1], labelName, defaultValue))

\* config.go:153
getFuncFirstBoolValue(labelName, defaultValue, insts) ==
    IF Len(insts) < 0 THEN Ok(defaultValue)
    ELSE IF Len(insts) = 0 THEN Panic
    ELSE Ok(getBoolValue(insts[1], labelName, defaultValue))

\* config.go:123
hasFuncFirst(labelName, insts) == hasFirst(insts, labelName)

\* config.go:88
hasLoadBalancerLabel(insts) ==
    LET method     == hasFirst(insts, TraefikBackendLoadBalancerMethod)
        sticky     == hasFirst(insts, TraefikBackendLoadBalancerSticky)
        stickiness == hasFirst(insts, TraefikBackendLoadBalancerStickiness)
        cookieName == hasFirst(insts, TraefikBackendLoadBalancerStickinessCookieName)
    IN  method \/ sticky \/ stickiness \/ cookieName

\* hasMaxConnLabels with "or" for "and"
hasMaxConnLabelsEither(insts) ==
    \/ hasFirst(insts, TraefikBackendMaxConnAmount)
    \/ hasFirst(insts, TraefikBackendMaxConnExtractorFunc)

\* config.go:97
hasMaxConnLabels(insts) ==
    LET mca  == hasFirst(insts, TraefikBackendMaxConnAmount)
        mcef == hasFirst(insts, TraefikBackendMaxConnExtractorFunc)
    IN  mca /\ mcef

\* the deprecation notice of getSticky
DeprecatedSticky == "Deprecated configuration found"

\* getSticky warning as soon as the first instance has the label, whatever
\* its value
getStickyWarnsOnAnyValue(insts) ==
    [ val  |-> getFirstStringValue(insts, TraefikBackendLoadBalancerSticky, StrFalse),
      warn |-> IF Len(insts) > 0 /\ TraefikBackendLoadBalancerSticky
                      \in DOMAIN insts[1].containerDefinition.DockerLabels
               THEN <<DeprecatedSticky>> ELSE <<>> ]

\* config.go:58: the value returned and the warnings written
getSticky(insts) ==
    [ val  |-> getFirstStringValue(insts, TraefikBackendLoadBalancerSticky, StrFalse),
      warn |-> IF hasFirst(insts, TraefikBackendLoadBalancerSticky)
               THEN <<DeprecatedSticky>> ELSE <<>> ]

---------------------------------------------------------------------------
(* Frontend rule, host, port, deduplication. *)

\* getFrontendRule without strings.ToLower
getFrontendRuleKeepsCase(p, i) ==
    getStringValue(i, TraefikFrontendRule,
                   <<"H", "o", "s", "t", ":">> \o Replace(i.Name, "_", "-")
                   \o <<".">> \o p.Domain)

\* config.go:51
getFrontendRule(p, i) ==
    LET defaultRule == <<"H", "o", "s", "t", ":">>
                       \o ToLower(Replace(i.Name, "_", "-"))
                       \o <<".">> \o p.Domain
    IN  getStringValue(i, TraefikFrontendRule, defaultRule)

\* config.go:65
getHost(i) ==
    IF IsNil(i.machine.PrivateIpAddress) THEN Panic
    ELSE Ok(Deref(i.machine.PrivateIpAddress))

\* getPort reading the last port binding instead of the first
getPortLastBinding(i) ==
    LET value == getStringValue(i, TraefikPort, <<>>)
        bs    == i.container.NetworkBindings
    IN  IF Len(value) > 0 THEN Ok(value)
        ELSE IF Len(bs) = 0 THEN Panic
        ELSE IF IsNil(bs[Len(bs)].HostPort) THEN Panic
        ELSE Ok(FormatInt(Deref(bs[Len(bs)].HostPort)))

\* config.go:69
getPort(i) ==
    LET value == getStringValue(i, TraefikPort, <<>>)
    IN  IF Len(value) > 0 THEN Ok(value)
        ELSE IF Len(i.container.NetworkBindings) = 0 THEN Panic
        ELSE IF IsNil(i.container.NetworkBindings[1].HostPort) THEN Panic
        ELSE Ok(FormatInt(Deref(i.container.NetworkBindings[1].HostPort)))

RECURSIVE FilterFrom(_, _, _)
\* fun.Filter with filterFrontends' predicate: one scan from the left, byName
\* holding the names already kept
FilterFrom(insts, n, byName) ==
    IF n > Len(insts) THEN <<>>
    ELSE IF insts[n].Name \in byName
         THEN FilterFrom(insts, n + 1, byName)
         ELSE <<insts[n]>> \o FilterFrom(insts, n + 1, byName \cup {insts[n].Name})

RECURSIVE DropAdjacent(_, _)
DropAdjacent(insts, n) ==
    IF n > Len(insts) THEN <<>>
    ELSE IF n > 1 /\ insts[n].Name = insts[n - 1].Name
         THEN DropAdjacent(insts, n + 1)
         ELSE <<insts[n]>> \o DropAdjacent(insts, n + 1)

\* filterFrontends dropping a name only when it repeats the one before it
filterFrontendsAdjacent(insts) == DropAdjacent(insts, 1)

\* config.go:76
filterFrontends(insts) == FilterFrom(insts, 1, {})

---------------------------------------------------------------------------
(* Inputs: instances as the discovery hands them over. *)

\* an ecsInstance: Name, containerDefinition.DockerLabels,
\* machine.PrivateIpAddress, container.NetworkBindings
ecsInstance(name, labels, addr, bindings) ==
    [ Name                |-> name,
      containerDefinition |-> [DockerLabels |-> labels],
      machine             |-> [PrivateIpAddress |-> addr],
      container           |-> [NetworkBindings |-> bindings] ]

NetworkBinding(hostPort) == [HostPort |-> hostPort]

WebName == <<"w", "e", "b">>

Addr1 == <<"1", "0", ".", "0", ".", "0", ".", "5">>

Addr2 == <<"1", "0", ".", "0", ".", "0", ".", "6">>

ExampleDomain == <<"e", "x", "a", "m", "p", "l", "e", ".", "c", "o", "m">>

\* an instance that is routable (address and one port binding), with labels
Routable(name, labels) ==
    ecsInstance(name, labels, Ptr(Addr1), <<NetworkBinding(Ptr(80))>>)

\* label values written out: the boolean tokens, malformed booleans and
\* integers, integers at the edge of the int range, lists
ValueTokens ==
    TrueTokens \cup FalseTokens \cup
    { <<"t","R","u","e">>, <<"n","o","t","a","b","o","o","l">>, <<"y","e","s">>,
      <<"1","2","x">>, <<"x">>, <<"1","_","0">>, <<"1",".","5">>,
      <<"3","2","7","6","7">>, <<"3","2","7","6","8">>,
      <<"-","3","2","7","6","8">>, <<"-","3","2","7","6","9">>,
      <<"6","5","5","3","5">>, <<"6","5","5","3","6">>,
      <<"9","9","9","9","9","9">>, <<"-","9","9","9","9","9","9">>,
      <<"a",",","b">>, <<" ","a"," ",","," ","b"," ">> }

ValueAlphabet == {"0", "1", "9", "-", "+", "t", " "}

\* the label values of the typed accessors' inputs
LabelStrings == SeqsUpTo(ValueAlphabet, MaxStrLen) \cup ValueTokens

TypedKeys == {TraefikEnable, TraefikPort}

\* label maps with at most one label: absent, nil, or any of LabelStrings
TypedLabelMaps ==
    {EmptyMap} \cup
    {(k :> p) : k \in TypedKeys, p \in {NilPtr} \cup {Ptr(s) : s \in LabelStrings}}

StringDefaults == {<<"d">>, <<>>}

IntDefaults == {7, -1}

Int64Defaults == {MaxInt64, 0}

NoCall == [fn |-> "none"]

InitTyped ==
    /\ \E labels \in TypedLabelMaps : instances = <<Routable(WebName, labels)>>
    /\ services = <<>>
    /\ domain = ExampleDomain
    /\ call = NoCall
    /\ ret = Ok(<<>>)
    /\ log = <<>>

---------------------------------------------------------------------------
(* Calls of the typed accessors on one instance. *)

CallGetStringValue ==
    \E n \in DOMAIN instances, k \in TypedKeys, d \in StringDefaults :
        /\ call' = [fn |-> "getStringValue", n |-> n, labelName |-> k, defaultValue |-> d]
        /\ ret' = Ok(getStringValue(instances[n], k, d))
        /\ log' = <<>>
        /\ UNCHANGED <<instances, services, domain>>

CallGetBoolValue ==
    \E n \in DOMAIN instances, k \in TypedKeys, d \in BOOLEAN :
        /\ call' = [fn |-> "getBoolValue", n |-> n, labelName |-> k, defaultValue |-> d]
        /\ ret' = Ok(getBoolValue(instances[n], k, d))
        /\ log' = <<>>
        /\ UNCHANGED <<instances, services, domain>>

CallGetIntValue ==
    \E n \in DOMAIN instances, k \in TypedKeys, d \in IntDefaults :
        /\ call' = [fn |-> "getIntValue", n |-> n, labelName |-> k, defaultValue |-> d]
        /\ ret' = Ok(getIntValue(instances[n], k, d))
        /\ log' = <<>>
        /\ UNCHANGED <<instances, services, domain>>

CallGetInt64Value ==
    \E n \in DOMAIN instances, k \in TypedKeys, d \in Int64Defaults :
        /\ call' = [fn |-> "getInt64Value", n |-> n, labelName |-> k, defaultValue |-> d]
        /\ ret' = Ok(getInt64Value(instances[n], k, d))
        /\ log' = <<>>
        /\ UNCHANGED <<instances, services, domain>>

CallGetSliceString ==
    \E n \in DOMAIN instances, k \in TypedKeys :
        /\ call' = [fn |-> "getSliceString", n |-> n, labelName |-> k]
        /\ ret' = Ok(getSliceString(instances[n], k))
        /\ log' = <<>>
        /\ UNCHANGED <<instances, services, domain>>

CallIsEnabled ==
    \E n \in DOMAIN instances, d \in BOOLEAN :
        /\ call' = [fn |-> "isEnabled", n |-> n, labelName |-> TraefikEnable, defaultValue |-> d]
        /\ ret' = Ok(isEnabled(instances[n], d))
        /\ log' = <<>>
        /\ UNCHANGED <<instances, services, domain>>

NextTyped ==
    \/ CallGetStringValue
    \/ CallGetBoolValue
    \/ CallGetIntValue
    \/ CallGetInt64Value
    \/ CallGetSliceString
    \/ CallIsEnabled

SpecTyped == InitTyped /\ [][NextTyped]_vars

---------------------------------------------------------------------------
(* What the claims say of a label, stated on the label map itself. *)

LabelsOf(i) == i.containerDefinition.DockerLabels

\* the label is absent, or present with a nil or an empty value
LabelUnset(i, k) ==
    \/ k \notin DOMAIN LabelsOf(i)
    \/ LabelsOf(i)[k] = NilPtr
    \/ LabelsOf(i)[k] = Ptr(<<>>)

LabelSet(i, k) == ~LabelUnset(i, k)

TypedFns == {"getStringValue", "getBoolValue", "getIntValue", "getInt64Value", "isEnabled"}

\* C3: every typed accessor returns the default (nil for the string list)
\* when the label is absent, nil or empty, and getStringValue returns the
\* stored value verbatim when it is present, non-nil and non-empty.
C3_UnsetLabelGivesDefault ==
    /\ (call.fn \in TypedFns /\ LabelUnset(instances[call.n], call.labelName))
          => (~ret.panic /\ ret.val = call.defaultValue)
    /\ (call.fn = "getSliceString" /\ LabelUnset(instances[call.n], call.labelName))
          => (~ret.panic /\ ret.val.nil /\ ret.val.elems = <<>>)
    /\ (call.fn = "getStringValue" /\ LabelSet(instances[call.n], call.labelName))
          => (~ret.panic /\ ret.val = LabelsOf(instances[call.n])[call.labelName][1])

\* getInt64Value was called on a label present with the empty string and a
\* default that is not 0, and returned the default
C3_Witness ==
    /\ call.fn = "getInt64Value"
    /\ call.labelName \in DOMAIN LabelsOf(instances[call.n])
    /\ LabelsOf(instances[call.n])[call.labelName] = Ptr(<<>>)
    /\ call.defaultValue = MaxInt64
    /\ ret.val = MaxInt64

RECURSIVE DecimalValue(_)
\* the number a string of digits writes, last digit first
DecimalValue(ds) ==
    IF Len(ds) = 0 THEN 0
    ELSE 10 * DecimalValue(SubSeq(ds, 1, Len(ds) - 1)) + DigitVal(ds[Len(ds)])

\* s is an optional sign followed by one or more digits
IsBase10(s) ==
    LET ds == IF Len(s) > 0 /\ s[1] \in {"+", "-"} THEN Tail(s) ELSE s
    IN  Len(ds) > 0 /\ \A p \in 1..Len(ds) : IsDigit(ds[p])

SignedValue(s) ==
    IF s[1] = "-" THEN 0 - DecimalValue(Tail(s))
    ELSE IF s[1] = "+" THEN DecimalValue(Tail(s))
    ELSE DecimalValue(s)

\* s writes an integer of the int range
ParsesAsInt(s) ==
    IsBase10(s) /\ SignedValue(s) >= 0 - Pow2(IntSize - 1)
                /\ SignedValue(s) <= Pow2(IntSize - 1) - 1

\* C4: a present, non-empty value that does not parse as the requested type
\* gives the default and no error; a value that parses gives the parsed
\* value.
C4_MalformedGivesDefault ==
    /\ (call.fn \in {"getBoolValue", "isEnabled"}
          /\ LabelSet(instances[call.n], call.labelName))
          => LET s == LabelsOf(instances[call.n])[call.labelName][1]
             IN  /\ ~ret.panic
                 /\ s \in TrueTokens => ret.val = TRUE
                 /\ s \in FalseTokens => ret.val = FALSE
                 /\ s \notin TrueTokens \cup FalseTokens => ret.val = call.defaultValue
    /\ (call.fn \in {"getIntValue", "getInt64Value"}
          /\ LabelSet(instances[call.n], call.labelName))
          => LET s == LabelsOf(instances[call.n])[call.labelName][1]
             IN  /\ ~ret.panic
                 /\ ParsesAsInt(s) => ret.val = SignedValue(s)
                 /\ ~ParsesAsInt(s) => ret.val = call.defaultValue

\* getIntValue was called on the value "12x" and returned its default
C4_Witness ==
    /\ call.fn = "getIntValue"
    /\ LabelSet(instances[call.n], call.labelName)
    /\ LabelsOf(instances[call.n])[call.labelName] = Ptr(<<"1", "2", "x">>)
    /\ ret = Ok(call.defaultValue)

---------------------------------------------------------------------------
(* Groups: the instances of one service, with group-level labels. *)

GroupKeys ==
    { TraefikBackendLoadBalancerMethod, TraefikBackendLoadBalancerSticky,
      TraefikBackendLoadBalancerStickiness,
      TraefikBackendLoadBalancerStickinessCookieName,
      TraefikBackendMaxConnAmount, TraefikBackendMaxConnExtractorFunc }

\* nil, the empty string, and "1" (true as a boolean, 1 as an integer)
GroupValues == {NilPtr, Ptr(<<>>), Ptr(<<"1">>)}

RECURSIVE SubsetsUpTo(_, _)
\* the subsets of S with at most k elements
SubsetsUpTo(S, k) ==
    IF k = 0 THEN {{}}
    ELSE LET smaller == SubsetsUpTo(S, k - 1)
         IN  smaller \cup {T \cup {x} : T \in smaller, x \in S}

\* the group of n instances whose labels are the slots <<instance, key>> of
\* f, with f's values
GroupOf(n, f) ==
    [ m \in 1..n |->
        Routable(WebName,
                 [k \in {key \in GroupKeys : <<m, key>> \in DOMAIN f} |-> f[<<m, k>>]]) ]

InitGroup ==
    /\ \E n \in 0..MaxInstances :
         \E T \in SubsetsUpTo((1..n) \X GroupKeys, MaxLabels) :
           \E f \in [T -> GroupValues] : instances = GroupOf(n, f)
    /\ services = <<>>
    /\ domain = ExampleDomain
    /\ call = NoCall
    /\ ret = Ok(<<>>)
    /\ log = <<>>

\* the labels the generic group accessors are asked for
GroupCallKeys == {TraefikBackendLoadBalancerStickiness, TraefikBackendMaxConnAmount}

CallGetFirstStringValue ==
    \E k \in GroupCallKeys :
        /\ call' = [fn |-> "getFirstStringValue", labelName |-> k, defaultValue |-> <<"d">>]
        /\ ret' = getFuncFirstStringValue(k, <<"d">>, instances)
        /\ log' = <<>>
        /\ UNCHANGED <<instances, services, domain>>

CallGetFirstIntValue ==
    \E k \in GroupCallKeys :
        /\ call' = [fn |-> "getFirstIntValue", labelName |-> k, defaultValue |-> 7]
        /\ ret' = getFuncFirstIntValue(k, 7, instances)
        /\ log' = <<>>
        /\ UNCHANGED <<instances, services, domain>>

CallGetFirstInt64Value ==
    \E k \in GroupCallKeys :
        /\ call' = [fn |-> "getFirstInt64Value", labelName |-> k, defaultValue |-> MaxInt64]
        /\ ret' = getFuncFirstInt64Value(k, MaxInt64, instances)
        /\ log' = <<>>
        /\ UNCHANGED <<instances, services, domain>>

CallGetFirstBoolValue ==
    \E k \in GroupCallKeys :
        /\ call' = [fn |-> "getFirstBoolValue", labelName |-> k, defaultValue |-> FALSE]
        /\ ret' = getFuncFirstBoolValue(k, FALSE, instances)
        /\ log' = <<>>
        /\ UNCHANGED <<instances, services, domain>>

CallHasFirst ==
    \E k \in GroupKeys :
        /\ call' = [fn |-> "hasFirst", labelName |-> k, defaultValue |-> FALSE]
        /\ ret' = Ok(hasFuncFirst(k, instances))
        /\ log' = <<>>
        /\ UNCHANGED <<instances, services, domain>>

CallHasLoadBalancerLabel ==
    /\ call' = [fn |-> "hasLoadBalancerLabel"]
    /\ ret' = Ok(hasLoadBalancerLabel(instances))
    /\ log' = <<>>
    /\ UNCHANGED <<instances, services, domain>>

CallHasMaxConnLabels ==
    /\ call' = [fn |-> "hasMaxConnLabels"]
    /\ ret' = Ok(hasMaxConnLabels(instances))
    /\ log' = <<>>
    /\ UNCHANGED <<instances, services, domain>>

CallGetSticky ==
    /\ call' = [fn |-> "getSticky", labelName |-> TraefikBackendLoadBalancerSticky, defaultValue |-> StrFalse]
    /\ ret' = Ok(getSticky(instances).val)
    /\ log' = getSticky(instances).warn
    /\ UNCHANGED <<instances, services, domain>>

NextGroup ==
    \/ CallGetFirstStringValue
    \/ CallGetFirstIntValue
    \/ CallGetFirstInt64Value
    \/ CallGetFirstBoolValue
    \/ CallHasFirst
    \/ CallHasLoadBalancerLabel
    \/ CallHasMaxConnLabels
    \/ CallGetSticky

SpecGroup == InitGroup /\ [][NextGroup]_vars

---------------------------------------------------------------------------
(* Claims on groups. *)

FirstAccessors ==
    {"getFirstStringValue", "getFirstIntValue", "getFirstInt64Value", "getFirstBoolValue"}

\* C1: every group-level accessor called on an empty instance list returns
\* its default value and does not fail.
C1_EmptyGroupGivesDefault ==
    (call.fn \in FirstAccessors /\ Len(instances) = 0)
        => (~ret.panic /\ ret.val = call.defaultValue)

\* what the call c returns on the group insts
GroupResult(c, insts) ==
    CASE c.fn = "getFirstStringValue" ->
            getFuncFirstStringValue(c.labelName, c.defaultValue, insts)
      [] c.fn = "getFirstIntValue" ->
            getFuncFirstIntValue(c.labelName, c.defaultValue, insts)
      [] c.fn = "getFirstInt64Value" ->
            getFuncFirstInt64Value(c.labelName, c.defaultValue, insts)
      [] c.fn = "getFirstBoolValue" ->
            getFuncFirstBoolValue(c.labelName, c.defaultValue, insts)
      [] c.fn = "hasFirst" -> Ok(hasFirst(insts, c.labelName))
      [] c.fn = "hasLoadBalancerLabel" -> Ok(hasLoadBalancerLabel(insts))
      [] c.fn = "hasMaxConnLabels" -> Ok(hasMaxConnLabels(insts))
      [] c.fn = "getSticky" -> Ok(getSticky(insts).val)

GroupFns ==
    FirstAccessors \cup {"hasFirst", "hasLoadBalancerLabel", "hasMaxConnLabels", "getSticky"}

\* C5: on a non-empty list every group-level accessor and presence predicate
\* returns what it returns on the first instance alone, or on the first
\* instance followed by an instance with every group label set; a label the
\* first instance does not have resolves to the default whatever the later
\* instances carry.
C5_FirstInstanceWins ==
    (call.fn \in GroupFns /\ Len(instances) >= 1)
        => /\ ~ret.panic
           /\ ret = GroupResult(call, <<instances[1]>>)
           /\ ret = GroupResult(call,
                      <<instances[1], Routable(WebName, [k \in GroupKeys |-> Ptr(<<"1">>)])>>)
           /\ (call.fn \in FirstAccessors \cup {"hasFirst", "getSticky"}
                 /\ call.labelName \notin DOMAIN LabelsOf(instances[1]))
                 => ret.val = call.defaultValue

\* a group accessor was called on a group whose second instance alone has
\* the label, and returned the default
C5_Witness ==
    /\ call.fn = "getFirstBoolValue"
    /\ Len(instances) >= 2
    /\ call.labelName \notin DOMAIN LabelsOf(instances[1])
    /\ LabelSet(instances[2], call.labelName)
    /\ LabelsOf(instances[2])[call.labelName] = Ptr(<<"1">>)
    /\ ret = Ok(FALSE)

\* C6: hasMaxConnLabels is true exactly when the amount label and the
\* extractor-function label are both present, non-nil and non-empty on the
\* first instance; false with one of them, none of them, or an empty list.
C6_MaxConnNeedsBoth ==
    call.fn = "hasMaxConnLabels"
        => /\ ~ret.panic
           /\ ret.val = (/\ Len(instances) >= 1
                         /\ LabelSet(instances[1], TraefikBackendMaxConnAmount)
                         /\ LabelSet(instances[1], TraefikBackendMaxConnExtractorFunc))

\* hasMaxConnLabels was called with the amount label alone and returned false
C6_Witness ==
    /\ call.fn = "hasMaxConnLabels"
    /\ Len(instances) >= 1
    /\ LabelSet(instances[1], TraefikBackendMaxConnAmount)
    /\ LabelUnset(instances[1], TraefikBackendMaxConnExtractorFunc)
    /\ ret = Ok(FALSE)

\* C10: getSticky returns the legacy sticky label of the first instance, or
\* "false", exactly as the plain group-level lookup does, and writes a
\* deprecation notice exactly when that label is present, non-nil and
\* non-empty on the first instance.
C10_StickyNoticeKeepsValue ==
    call.fn = "getSticky"
        => LET present == /\ Len(instances) >= 1
                          /\ LabelSet(instances[1], TraefikBackendLoadBalancerSticky)
           IN  /\ ~ret.panic
               /\ ret.val = IF present
                            THEN LabelsOf(instances[1])[TraefikBackendLoadBalancerSticky][1]
                            ELSE StrFalse
               /\ ret.val = getFirstStringValue(instances,
                                TraefikBackendLoadBalancerSticky, StrFalse)
               /\ (log # <<>>) <=> present
               /\ log \in {<<>>, <<DeprecatedSticky>>}

\* getSticky was called on a first instance with the legacy label set:
\* the label's value came back and one notice was written
C10_Witness ==
    /\ call.fn = "getSticky"
    /\ Len(instances) >= 1
    /\ LabelSet(instances[1], TraefikBackendLoadBalancerSticky)
    /\ ret = Ok(<<"1">>)
    /\ log = <<DeprecatedSticky>>

---------------------------------------------------------------------------
(* Frontends: deduplication, routing rule, host and port. *)

ApiName == <<"a", "p", "i">>

DbName == <<"d", "b">>

MyService == <<"M", "y", "_", "S", "e", "r", "v", "i", "c", "e">>

OtherDomain == <<"x", ".", "i", "o">>

ExplicitRule == <<"P", "a", "t", "h", ":", "/", "A", "_", "b">>

Port8080 == <<"8", "0", "8", "0">>

\* lists with repeated names, the instances of a name told apart by address
FilterInputs ==
    SeqsUpTo({ecsInstance(name, EmptyMap, Ptr(a), <<NetworkBinding(Ptr(80))>>) :
                 name \in {WebName, ApiName, DbName}, a \in {Addr1, Addr2}},
             MaxFilterLen)

NameAlphabet == {"M", "s", "_", "-"}

\* one instance, its name and its routing-rule label varied
RuleInputs ==
    { <<Routable(name, labels)>> :
        name \in SeqsUpTo(NameAlphabet, MaxNameLen) \cup {MyService, WebName},
        labels \in {EmptyMap} \cup
                   {(TraefikFrontendRule :> v) :
                       v \in {NilPtr, Ptr(<<>>), Ptr(ExplicitRule)}} }

HostPorts == {NilPtr, Ptr(0), Ptr(80), Ptr(443)}

\* one instance, its address, port label and port bindings varied
PortInputs ==
    { <<ecsInstance(WebName, labels, addr, bindings)>> :
        labels \in {EmptyMap} \cup
                   {(TraefikPort :> v) : v \in {NilPtr, Ptr(<<>>), Ptr(Port8080)}},
        addr \in {NilPtr, Ptr(Addr1)},
        bindings \in {[b \in 1..Len(hs) |-> NetworkBinding(hs[b])] :
                         hs \in SeqsUpTo(HostPorts, 2)} }

InitFrontend ==
    /\ instances \in FilterInputs \cup RuleInputs \cup PortInputs
    /\ services = <<>>
    /\ domain \in {ExampleDomain, OtherDomain}
    /\ call = NoCall
    /\ ret = Ok(<<>>)
    /\ log = <<>>

\* the Provider, of which the code reads Domain
Provider == [Domain |-> domain]

CallFilterFrontends ==
    /\ call' = [fn |-> "filterFrontends", arg |-> instances, again |-> FALSE]
    /\ ret' = Ok(filterFrontends(instances))
    /\ log' = <<>>
    /\ UNCHANGED <<instances, services, domain>>

\* the renderer hands filterFrontends' result to filterFrontends again
CallFilterFrontendsAgain ==
    /\ call.fn = "filterFrontends"
    /\ call' = [fn |-> "filterFrontends", arg |-> ret.val, again |-> TRUE]
    /\ ret' = Ok(filterFrontends(ret.val))
    /\ log' = <<>>
    /\ UNCHANGED <<instances, services, domain>>

CallGetFrontendRule ==
    \E n \in DOMAIN instances :
        /\ call' = [fn |-> "getFrontendRule", n |-> n]
        /\ ret' = Ok(getFrontendRule(Provider, instances[n]))
        /\ log' = <<>>
        /\ UNCHANGED <<instances, services, domain>>

CallGetHost ==
    \E n \in DOMAIN instances :
        /\ call' = [fn |-> "getHost", n |-> n]
        /\ ret' = getHost(instances[n])
        /\ log' = <<>>
        /\ UNCHANGED <<instances, services, domain>>

CallGetPort ==
    \E n \in DOMAIN instances :
        /\ call' = [fn |-> "getPort", n |-> n]
        /\ ret' = getPort(instances[n])
        /\ log' = <<>>
        /\ UNCHANGED <<instances, services, domain>>

NextFrontend ==
    \/ CallFilterFrontends
    \/ CallFilterFrontendsAgain
    \/ CallGetFrontendRule
    \/ CallGetHost
    \/ CallGetPort

SpecFrontend == InitFrontend /\ [][NextFrontend]_vars

---------------------------------------------------------------------------
(* Claims on frontends. *)

\* the positions of l that hold the first occurrence of their Name
FirstOccurrences(l) ==
    {p \in 1..Len(l) : \A q \in 1..(p - 1) : l[q].Name # l[p].Name}

\* the r-th smallest element of the set of positions P
NthOf(P, r) == CHOOSE p \in P : Cardinality({q \in P : q < p}) = r - 1

\* C7: filterFrontends returns exactly the first occurrence of each Name, in
\* the order of the input, and applied to its own output returns it
\* unchanged.
C7_FirstOccurrencesInOrder ==
    call.fn = "filterFrontends"
        => LET firsts == FirstOccurrences(call.arg)
           IN  /\ ~ret.panic
               /\ Len(ret.val) = Cardinality(firsts)
               /\ \A r \in 1..Len(ret.val) : ret.val[r] = call.arg[NthOf(firsts, r)]
               /\ \A r1, r2 \in 1..Len(ret.val) :
                     r1 # r2 => ret.val[r1].Name # ret.val[r2].Name
               /\ {ret.val[r].Name : r \in 1..Len(ret.val)}
                     = {call.arg[q].Name : q \in 1..Len(call.arg)}
               /\ call.again => ret.val = call.arg

\* filterFrontends was applied to the output it gave for a list in which a
\* name comes back after another name
C7_Witness ==
    /\ call.fn = "filterFrontends"
    /\ call.again
    /\ Len(instances) >= 3
    /\ instances[1].Name = instances[3].Name
    /\ instances[1].Name # instances[2].Name
    /\ instances[1] # instances[3]
    /\ ret.val = <<instances[1], instances[2]>>

\* the default rule for name and dom, position by position
IsDefaultRule(e, name, dom) ==
    /\ Len(e) = 5 + Len(name) + 1 + Len(dom)
    /\ SubSeq(e, 1, 5) = <<"H", "o", "s", "t", ":">>
    /\ \A q \in 1..Len(name) :
         /\ name[q] = "_" => e[5 + q] = "-"
         /\ \A u \in 1..26 : name[q] = UpperCase[u] => e[5 + q] = LowerCase[u]
         /\ (name[q] # "_" /\ \A u \in 1..26 : name[q] # UpperCase[u])
               => e[5 + q] = name[q]
    /\ e[5 + Len(name) + 1] = "."
    /\ SubSeq(e, 5 + Len(name) + 2, Len(e)) = dom

HostMyService ==
    <<"H", "o", "s", "t", ":", "m", "y", "-", "s", "e", "r", "v", "i", "c", "e",
      ".", "e", "x", "a", "m", "p", "l", "e", ".", "c", "o", "m">>

\* C8: getFrontendRule returns the routing-rule label when it is present,
\* non-nil and non-empty, and otherwise "Host:" + the name in lower case
\* with "_" replaced by "-" + "." + the domain; My_Service with example.com
\* gives Host:my-service.example.com.
C8_FrontendRule ==
    call.fn = "getFrontendRule"
        => LET i == instances[call.n]
           IN  /\ ~ret.panic
               /\ LabelSet(i, TraefikFrontendRule)
                     => ret.val = LabelsOf(i)[TraefikFrontendRule][1]
               /\ LabelUnset(i, TraefikFrontendRule)
                     => IsDefaultRule(ret.val, i.Name, domain)
               /\ (LabelUnset(i, TraefikFrontendRule) /\ i.Name = MyService
                      /\ domain = ExampleDomain)
                     => ret.val = HostMyService

\* getFrontendRule was called for My_Service with no rule label
C8_Witness ==
    /\ call.fn = "getFrontendRule"
    /\ instances[call.n].Name = MyService
    /\ TraefikFrontendRule \notin DOMAIN LabelsOf(instances[call.n])
    /\ domain = ExampleDomain
    /\ ret = Ok(HostMyService)

\* s is the base-10 text of n: digits that write n, "-" in front of a
\* negative number alone, no leading zero
IsDecimalTextOf(s, n) ==
    /\ IsBase10(s)
    /\ SignedValue(s) = n
    /\ s[1] # "+"
    /\ (s[1] = "-") <=> (n < 0)
    /\ (Len(s) > 1 /\ n >= 0) => s[1] # "0"

\* C9: getPort returns the port label when it is present, non-nil and
\* non-empty, whatever the bindings; otherwise the base-10 text of the host
\* port of the first port binding, never of a later one.
C9_PortLabelThenFirstBinding ==
    call.fn = "getPort"
        => LET i  == instances[call.n]
               bs == i.container.NetworkBindings
           IN  /\ LabelSet(i, TraefikPort)
                     => ret = Ok(LabelsOf(i)[TraefikPort][1])
               /\ (LabelUnset(i, TraefikPort) /\ Len(bs) >= 1 /\ bs[1].HostPort # NilPtr)
                     => /\ ~ret.panic
                        /\ IsDecimalTextOf(ret.val, bs[1].HostPort[1])

\* getPort was called with no port label and two bindings with different
\* host ports, and returned the text of the first
C9_Witness ==
    /\ call.fn = "getPort"
    /\ LabelUnset(instances[call.n], TraefikPort)
    /\ Len(instances[call.n].container.NetworkBindings) = 2
    /\ instances[call.n].container.NetworkBindings[1].HostPort = Ptr(80)
    /\ instances[call.n].container.NetworkBindings[2].HostPort = Ptr(443)
    /\ ret = Ok(<<"8", "0">>)

---------------------------------------------------------------------------
(* The configuration assembler. *)

\* label.DefaultBackendLoadBalancerMethod
DefaultBackendLoadBalancerMethod == <<"w", "r", "r">>

\* label.DefaultBackendMaxconnExtractorFunc
DefaultBackendMaxconnExtractorFunc == <<"r", "e", "q", "u", "e", "s", "t", ".", "h", "o", "s", "t">>

\* an optional block of the configuration that is left out
NoBlock == [emitted |-> FALSE]

\* the backend and the frontends the template writes for one service from
\* the accessors' results, for a service whose instances all have a host
\* and a port
RenderService(p, insts) ==
    [ servers      |-> [n \in 1..Len(insts) |->
                          [host |-> getHost(insts[n]).val,
                           port |-> getPort(insts[n]).val]],
      loadBalancer |-> IF hasLoadBalancerLabel(insts)
                       THEN [emitted |-> TRUE,
                             method  |-> getFirstStringValue(insts,
                                             TraefikBackendLoadBalancerMethod,
                                             DefaultBackendLoadBalancerMethod),
                             sticky  |-> getSticky(insts).val]
                       ELSE NoBlock,
      maxConn      |-> IF hasMaxConnLabels(insts)
                       THEN [emitted |-> TRUE,
                             amount  |-> getFuncFirstInt64Value(
                                             TraefikBackendMaxConnAmount,
                                             MaxInt64, insts).val,
                             extractorFunc |-> getFirstStringValue(insts,
                                             TraefikBackendMaxConnExtractorFunc,
                                             DefaultBackendMaxconnExtractorFunc)]
                       ELSE NoBlock,
      healthCheck  |-> IF hasFirst(insts, TraefikBackendHealthCheckPath)
                       THEN [emitted |-> TRUE,
                             path |-> getFirstStringValue(insts,
                                          TraefikBackendHealthCheckPath, <<>>)]
                       ELSE NoBlock,
      circuitBreaker |-> IF hasFirst(insts, TraefikBackendCircuitBreakerExpression)
                         THEN [emitted |-> TRUE]
                         ELSE NoBlock,
      frontends    |-> [n \in 1..Len(filterFrontends(insts)) |->
                          [rule |-> getFrontendRule(p, filterFrontends(insts)[n])]] ]

\* the service has an instance with no routing target: getHost or getPort
\* panics on it
Unroutable(insts) ==
    \E n \in 1..Len(insts) : getHost(insts[n]).panic \/ getPort(insts[n]).panic

\* GetConfiguration giving up the whole batch when one service has no
\* routing target
GetConfigurationAbortsBatch(p, svcs) ==
    IF \E s \in DOMAIN svcs : Unroutable(svcs[s]) THEN Panic
    ELSE Ok([ config |-> [name \in DOMAIN svcs |-> RenderService(p, svcs[name])],
              failed |-> {} ])

\* Provider.GetConfiguration with templates/ecs.tmpl: every service is
\* derived on its own; a service with no routing target is a failure of
\* that service, reported to the caller, and is left out of the
\* configuration
GetConfiguration(p, svcs) ==
    Ok([ config |-> [name \in {s \in DOMAIN svcs : ~Unroutable(svcs[s])} |->
                        RenderService(p, svcs[name])],
         failed |-> {s \in DOMAIN svcs : Unroutable(svcs[s])} ])

\* config.go:16
buildConfiguration(p, svcs) == GetConfiguration(p, svcs)

\* the service names of a batch
ServiceNames == <<WebName, ApiName, DbName, MyService>>

\* instances with and without an address, a port binding, a port label
BuildInstances(name) ==
    { ecsInstance(name, labels, addr, bindings) :
        labels \in {EmptyMap, (TraefikPort :> Ptr(Port8080))},
        addr \in {NilPtr, Ptr(Addr1)},
        bindings \in {<<>>, <<NetworkBinding(Ptr(80))>>} }

\* the instance lists of a service: one instance, or a routable instance
\* followed by one
BuildGroups(name) ==
    {<<i>> : i \in BuildInstances(name)}
    \cup {<<Routable(name, EmptyMap), i>> : i \in BuildInstances(name)}

InitBuild ==
    /\ \E names \in SUBSET {ServiceNames[n] : n \in 1..MaxServices} :
         \E groups \in [names -> UNION {BuildGroups(name) : name \in names}] :
           /\ \A name \in names : groups[name] \in BuildGroups(name)
           /\ services = groups
    /\ instances = <<>>
    /\ domain = ExampleDomain
    /\ call = NoCall
    /\ ret = Ok(<<>>)
    /\ log = <<>>

CallBuildConfiguration ==
    /\ call' = [fn |-> "buildConfiguration"]
    /\ ret' = buildConfiguration(Provider, services)
    /\ log' = <<>>
    /\ UNCHANGED <<instances, services, domain>>

NextBuild == CallBuildConfiguration

SpecBuild == InitBuild /\ [][NextBuild]_vars

\* the batch svcs without the services of the set names
Without(svcs, names) == [s \in DOMAIN svcs \ names |-> svcs[s]]

\* an instance has a routing target: an address, and a port label or a
\* first port binding with a host port
HasRoutingTarget(i) ==
    /\ i.machine.PrivateIpAddress # NilPtr
    /\ \/ LabelSet(i, TraefikPort)
       \/ /\ Len(i.container.NetworkBindings) >= 1
          /\ i.container.NetworkBindings[1].HostPort # NilPtr

AllRoutable(insts) == \A n \in 1..Len(insts) : HasRoutingTarget(insts[n])

===========================================================================
